---------------------------- MODULE Spec2Model ----------------------------
(***************************************************************************)
(* Model of the image-ingestion pipeline of Nong-Mo/backend:               *)
(*   routes/image.py        upload_images   (route validation of quads)    *)
(*   services/image_services.py  ImageService.process_images and helpers   *)
(*   services/storage_service.py StorageService.create_pdf_from_images     *)
(*   utils/tts_util.py      TTSUtil._split_text, _combine_mp3_files,       *)
(*                          convert_text_to_speech                         *)
(* Python's zero-based positions are kept in the operators' arguments;     *)
(* sequences are one-based, so text[p] of the source is text[p + 1] here.  *)
(***************************************************************************)
EXTENDS Integers, Sequences, FiniteSets, TLC

(***************************************************************************)
(* Bounds of the model.                                                    *)
(***************************************************************************)
\* most pages (uploaded files) in one request
MaxPages == 2
\* longest text handed to the splitter
MaxTextLen == 6
\* largest max_length tried on the splitter (the source's default is 1900)
MaxChunk == 4
\* concurrent calls of process_images into one collection
NumCalls == 2
\* largest coordinate of a quad's point handed to transform_image alone
MaxCoord == 2

(***************************************************************************)
(* Program constants.                                                      *)
(***************************************************************************)
MAX_FILE_SIZE == 10 * 1024 * 1024
MIN_FILE_SIZE == 1
\* names are transliterated: book, receipt, goods, film photo, document, ticket
ALLOWED_STORAGE_NAMES == {"book", "receipt", "goods", "film", "document", "ticket"}

Max(a, b) == IF a >= b THEN a ELSE b

RECURSIVE ISqrt(_)
\* floor of the square root
ISqrt(n) == IF n < 1 THEN 0 ELSE
    LET r == 2 * ISqrt(n \div 4) IN IF (r + 1) * (r + 1) <= n THEN r + 1 ELSE r

RECURSIVE Flatten(_)
\* concatenation of a sequence of sequences, in order
Flatten(ss) == IF ss = <<>> THEN <<>> ELSE Head(ss) \o Flatten(Tail(ss))

(***************************************************************************)
(* Text: a sequence of one-character strings.                              *)
(***************************************************************************)
Terminators == {".", "!", "?"}
Whitespace == {" "}

RECURSIVE LStrip(_)
LStrip(t) == IF t # <<>> /\ Head(t) \in Whitespace THEN LStrip(Tail(t)) ELSE t

RECURSIVE RStrip(_)
RStrip(t) == IF t # <<>> /\ t[Len(t)] \in Whitespace
             THEN RStrip(SubSeq(t, 1, Len(t) - 1)) ELSE t

\* str.strip()
Strip(t) == RStrip(LStrip(t))

\* a slice that drops nothing
DropNothing(t, p) == t

\* text[:p] and text[p:]
Take(t, p) == SubSeq(t, 1, IF p > Len(t) THEN Len(t) ELSE p)
Drop(t, p) == SubSeq(t, p + 1, Len(t))

(***************************************************************************)
(* TTSUtil._split_text (utils/tts_util.py)                                 *)
(***************************************************************************)
Alphabet == {"a", "b", ".", " "}
Texts == UNION {[1..n -> Alphabet] : n \in 0..MaxTextLen}

RECURSIVE ScanBack(_, _, _)
\* the inner while loop: from split_pos down to max_length // 2 (exclusive),
\* stop one past the first terminator met
ScanBack(text, max_length, split_pos) ==
    IF split_pos > max_length \div 2
    THEN IF text[split_pos + 1] \in Terminators
         THEN split_pos + 1
         ELSE ScanBack(text, max_length, split_pos - 1)
    ELSE split_pos

\* the cut always made at max_length
FindSplitPosHardOnly(text, max_length) == max_length

\* the cut position of one round, for len(text) > max_length
FindSplitPos(text, max_length) ==
    LET split_pos == ScanBack(text, max_length, max_length)
    IN  IF split_pos <= max_length \div 2 THEN max_length ELSE split_pos

\* whether the round's scan met a terminator (the cut is not a hard cut)
FoundTerminator(text, max_length) ==
    ScanBack(text, max_length, max_length) > max_length \div 2

\* the remainder taken one character too far
RemainderSkipsOne(text, split_pos) == Strip(Drop(text, split_pos + 1))

\* text = text[split_pos:].strip()
Remainder(text, split_pos) == Strip(Drop(text, split_pos))

RECURSIVE SplitLoop(_, _, _)
\* the outer while loop
SplitLoop(text, max_length, parts) ==
    IF text = <<>> THEN parts
    ELSE IF Len(text) <= max_length THEN Append(parts, text)
    ELSE LET split_pos == FindSplitPos(text, max_length)
         IN  SplitLoop(Remainder(text, split_pos), max_length,
                       Append(parts, Take(text, split_pos)))

_split_text(text, max_length) ==
    IF Len(text) <= max_length THEN <<text>> ELSE SplitLoop(text, max_length, <<>>)

VARIABLES
    sp_pc,       \* position in _split_text: "off", "entry", "loop", "returned"
    sp_input,    \* the text argument as passed
    sp_max,      \* the max_length argument
    sp_text,     \* the local text (what remains)
    sp_parts,    \* the local parts
    sp_kinds,    \* history: how each part was cut ("whole", "sentence", "hard", "rest")
    sp_rounds    \* history: length of text before and after each cutting round

splitVars == <<sp_pc, sp_input, sp_max, sp_text, sp_parts, sp_kinds, sp_rounds>>

SplitOff ==
    /\ sp_pc = "off" /\ sp_input = <<>> /\ sp_max = 0 /\ sp_text = <<>>
    /\ sp_parts = <<>> /\ sp_kinds = <<>> /\ sp_rounds = <<>>

SplitInit ==
    /\ sp_pc = "entry"
    /\ sp_input \in Texts
    /\ sp_max \in 1..MaxChunk
    /\ sp_text = sp_input
    /\ sp_parts = <<>> /\ sp_kinds = <<>> /\ sp_rounds = <<>>

(***************************************************************************)
(* Images, quads and HTTP errors of the ingestion pipeline.                *)
(***************************************************************************)
\* bytes of an image file: px names the picture, size is len(bytes)
Bytes(px, w, h, warped, size) ==
    [px |-> px, w |-> w, h |-> h, warped |-> warped, size |-> size]

EmptyBytes == Bytes("", 0, 0, FALSE, 0)
ImgA == Bytes("A", 8, 8, FALSE, 3)
ImgB == Bytes("B", 8, 8, FALSE, 5)
\* non-empty bytes that no image decoder accepts
Junk == Bytes("junk", 0, 0, FALSE, 2)

\* cv2.imdecode(...) is not None
Decodable(b) == b.px \in {"A", "B"}

Point(x, y) == [x |-> x, y |-> y]
Quad4 == <<Point(0, 0), Point(3, 0), Point(3, 4), Point(0, 4)>>
Quad3 == <<Point(0, 0), Point(3, 0), Point(3, 4)>>
QuadDegenerate == <<Point(1, 1), Point(1, 1), Point(1, 1), Point(1, 1)>>

\* an UploadFile
UploadFile(filename, content) ==
    [filename |-> filename, content_type |-> "image/jpeg", content |-> content]

\* an image of more than MAX_FILE_SIZE bytes
Huge == Bytes("H", 8, 8, FALSE, MAX_FILE_SIZE + 1)

FileChoices ==
    { UploadFile("a.jpg", ImgA), UploadFile("a.jpg", ImgB),
      UploadFile("b.jpg", EmptyBytes), UploadFile("b.jpg", Junk),
      UploadFile("c.jpg", Huge) }

\* an entry of the parsed pages_vertices_data list: null or a list of points
NoVertices == [is_none |-> TRUE, points |-> <<>>]
Vertices(points) == [is_none |-> FALSE, points |-> points]
VerticesChoices ==
    {NoVertices, Vertices(Quad4), Vertices(Quad3), Vertices(QuadDegenerate)}

SeqsUpTo(S, n) == UNION {[1..k -> S] : k \in 0..n}

\* the pages_vertices_data form field, parsed: absent, not a list, or a list
FormAbsent == [kind |-> "absent", items |-> <<>>]
FormNotAList == [kind |-> "not_a_list", items |-> <<>>]
FormList(items) == [kind |-> "list", items |-> items]
VerticesDataChoices ==
    {FormAbsent, FormNotAList}
        \cup {FormList(items) : items \in SeqsUpTo(VerticesChoices, MaxPages)}

\* the vertices_data argument of process_images: None or a list
NoVerticesData == [is_none |-> TRUE, items |-> <<>>]
VerticesData(items) == [is_none |-> FALSE, items |-> items]

\* Python's None for an id
NoId == "None"

StorageNameChoices == {"book", "ticket", "memo"}
UserChoices == {"kim@nongmo", "nobody@nongmo"}

HTTPException(status_code, detail) ==
    [type |-> "HTTPException", status_code |-> status_code, detail |-> detail]
\* an exception that is not an HTTPException (cv2.error, a driver error, ...)
OtherException(detail) ==
    [type |-> "Exception", status_code |-> 0, detail |-> detail]
NoException == [type |-> "none", status_code |-> 0, detail |-> ""]

(***************************************************************************)
(* The document database, the object store and the local disk.             *)
(***************************************************************************)
\* db.users
users == { [_id |-> "u1", email |-> "kim@nongmo"] }

\* db["users"].find_one({"email": ...}): the user's _id or None
find_user(email) ==
    IF \E u \in users : u.email = email
    THEN (CHOOSE u \in users : u.email = email)._id
    ELSE NoId

\* db.storages at start: kim owns "book" (one item) and "receipt" (no item)
InitStorages ==
    [ sid \in {"s_book", "s_receipt"} |->
        IF sid = "s_book"
        THEN [user_id |-> "u1", name |-> "book", file_count |-> 1]
        ELSE [user_id |-> "u1", name |-> "receipt", file_count |-> 0] ]

\* db.files at start: the primary record of the item already in "book"
InitFiles ==
    << [storage_id |-> "s_book", user_id |-> "u1", s3_key |-> "tts/old.mp3",
        mime_type |-> "audio/mp3", is_primary |-> TRUE, primary_file_id |-> 0,
        contents |-> <<>>, file_size |-> 3] >>

\* the body of a stored object: audio frames or PDF pages
AudioBody(audio) == [audio |-> audio, pages |-> <<>>]
PdfBody(pages) == [audio |-> <<>>, pages |-> pages]

\* the audio the speech service returns for a text
Speech(text) == <<[spoken |-> text]>>

\* the bucket at start
InitObjects ==
    { [Key |-> "tts/old.mp3", ContentType |-> "audio/mp3",
       Body |-> AudioBody(Speech(<<"o", "l", "d">>))] }

\* storage_collection.find_one({"user_id": ..., "name": ...}): the _id or None
find_storage(storages, user_id, storage_name) ==
    LET hits == {sid \in DOMAIN storages :
                    /\ storages[sid].user_id = user_id
                    /\ storages[sid].name = storage_name}
    IN  IF hits = {} THEN NoId ELSE CHOOSE sid \in hits : TRUE

\* update_one({"_id": sid}, {"$inc": {"file_count": delta}})
inc_file_count(storages, sid, delta) ==
    IF sid \in DOMAIN storages
    THEN [storages EXCEPT ![sid].file_count = @ + delta]
    ELSE storages

\* os.path.join(upload_dir, filename) written with content
WriteFile(dir, filename, content) ==
    {e \in dir : e[1] # filename} \cup {<<filename, content>>}

ReadFile(dir, filename) == (CHOOSE e \in dir : e[1] = filename)[2]

(***************************************************************************)
(* ImageService.transform_image, _call_clova_ocr, _call_naver_tts          *)
(***************************************************************************)
Dist2(p, q) == (p.x - q.x) * (p.x - q.x) + (p.y - q.y) * (p.y - q.y)

\* the width taken from one diagonal
OutWidthDiagonal(v) == ISqrt(Dist2(v[3], v[1]))

\* int(width): width = max(|p1 - p0|, |p2 - p3|)
OutWidth(v) == ISqrt(Max(Dist2(v[2], v[1]), Dist2(v[3], v[4])))
\* int(height): height = max(|p3 - p0|, |p2 - p1|)
OutHeight(v) == ISqrt(Max(Dist2(v[4], v[1]), Dist2(v[3], v[2])))

\* what OpenCV does with an empty output size is the library's choice:
\* it raises, or it falls back to the source's size
CvChoices == {"raises", "source_size"}

\* transform_image(image_bytes, vertices): [exc, bytes]
transform_image(image_bytes, vertices, cv) ==
    IF Len(vertices) # 4
    THEN [exc |-> HTTPException(400, "Image transformation requires exactly 4 vertices"),
          bytes |-> EmptyBytes]
    ELSE IF ~Decodable(image_bytes)
    THEN [exc |-> HTTPException(400, "Invalid image data"), bytes |-> EmptyBytes]
    ELSE LET w == OutWidth(vertices)
             h == OutHeight(vertices)
         IN  IF w <= 0 \/ h <= 0
             THEN IF cv = "raises"
                  THEN [exc |-> OtherException("cv2.error"), bytes |-> EmptyBytes]
                  ELSE [exc |-> NoException,
                        bytes |-> Bytes(image_bytes.px, image_bytes.w, image_bytes.h,
                                        TRUE, image_bytes.w * image_bytes.h)]
             ELSE [exc |-> NoException,
                   bytes |-> Bytes(image_bytes.px, w, h, TRUE, w * h)]

\* the text-extraction service's answers
OcrOk(texts) == [kind |-> "ok", texts |-> texts, status |-> 200]
OcrHttpError(status) == [kind |-> "http_error", texts |-> <<>>, status |-> status]
OcrRequestError == [kind |-> "request_error", texts |-> <<>>, status |-> 0]
OcrChoices ==
    { OcrOk(<< <<"a", "b">> >>), OcrOk(<< <<"c">>, <<"d", ".">> >>),
      OcrHttpError(502), OcrRequestError }

\* whether _call_clova_ocr gets as far as the request
OcrSizeOk(file) ==
    ~(file.content.size < MIN_FILE_SIZE \/ file.content.size > MAX_FILE_SIZE)

\* _call_clova_ocr(file): [exc, texts]; the bytes sent are the upload's own
_call_clova_ocr(file, answer) ==
    IF ~OcrSizeOk(file)
    THEN \* the 400 raised inside the try is caught by "except Exception"
         [exc |-> HTTPException(500, "unknown error: file size out of range"),
          texts |-> <<>>]
    ELSE IF answer.kind = "http_error"
    THEN [exc |-> HTTPException(answer.status, "HTTP error"), texts |-> <<>>]
    ELSE IF answer.kind = "request_error"
    THEN [exc |-> HTTPException(500, "request error"), texts |-> <<>>]
    ELSE [exc |-> NoException, texts |-> answer.texts]

RECURSIVE JoinSpace(_)
\* " ".join(combined_text)
JoinSpace(frags) ==
    IF frags = <<>> THEN <<>>
    ELSE IF Len(frags) = 1 THEN Head(frags)
    ELSE Head(frags) \o <<" ">> \o JoinSpace(Tail(frags))

\* the new fragments put in front of the old ones
ExtendInFront(combined_text, text) == text \o combined_text

\* combined_text.extend(text)
Extend(combined_text, text) == combined_text \o text

TtsChoices == {"ok", "tts_fails", "put_fails"}

\* the audio stored under its key whatever the speech service answered
_call_naver_tts_PutAlways(text, answer) ==
    [exc |-> IF answer = "ok" THEN NoException
             ELSE HTTPException(500, "TTS failed: request"),
     s3_key |-> IF answer = "ok" THEN "tts/new.mp3" ELSE NoId,
     put |-> {[Key |-> "tts/new.mp3", ContentType |-> "audio/mp3",
               Body |-> AudioBody(Speech(text))]}]

\* _call_naver_tts(text, ...): one request with the whole text, then one put
_call_naver_tts(text, answer) ==
    IF answer = "tts_fails"
    THEN [exc |-> HTTPException(500, "TTS failed: request"), s3_key |-> NoId,
          put |-> {}]
    ELSE IF answer = "put_fails"
    THEN [exc |-> HTTPException(500, "TTS failed: put_object"), s3_key |-> NoId,
          put |-> {}]
    ELSE [exc |-> NoException, s3_key |-> "tts/new.mp3",
          put |-> {[Key |-> "tts/new.mp3", ContentType |-> "audio/mp3",
                    Body |-> AudioBody(Speech(text))]}]

(***************************************************************************)
(* One request to POST /images/upload: upload_images, then process_images. *)
(***************************************************************************)
VARIABLES
    pc,              \* where the request stands
    req,             \* the form: storage_name, user_id, files, pages_vertices_data
    vertices_data,   \* process_images' argument, as built by the route
    user,            \* user["_id"]
    storage_id,
    upload_dir,      \* files of /tmp/{user_id}/{file_id}: <<filename, bytes>>
    upload_dir_state,\* the directory: "never" made, "made", "removed"
    idx,             \* the page loop's index
    image_paths,
    combined_text,
    total_size,
    final_text,
    s3_key,
    mp3_file_id,
    exc,             \* the exception caught by process_images' handler
    raised,          \* the HTTPException that reached the caller
    returned,        \* the file_id returned to the caller
    storages,        \* db.storages
    files,           \* db.files, in insertion order; _id is the position
    objects,         \* the bucket
    ledger_writes,   \* history: each $inc applied to a file_count, in order
    ext_calls,       \* history: each request sent to OCR or TTS, in order
    rectified,       \* history: the bytes written to disk for each page
    extracted        \* history: each answer of the OCR service, as it arrived

pipeVars ==
    <<pc, req, vertices_data, user, storage_id, upload_dir, upload_dir_state, idx,
      image_paths, combined_text, total_size, final_text, s3_key, mp3_file_id,
      exc, raised, returned, storages, files, objects, ledger_writes, ext_calls,
      rectified, extracted>>

\* locals of process_images that a step leaves alone
NoRequest ==
    [storage_name |-> "", user_id |-> "", files |-> <<>>,
     pages_vertices_data |-> FormAbsent]

PipeInit ==
    /\ pc = "idle"
    /\ req = NoRequest
    /\ vertices_data = NoVerticesData
    /\ user = NoId
    /\ storage_id = NoId
    /\ upload_dir = {}
    /\ upload_dir_state = "never"
    /\ idx = 0
    /\ image_paths = <<>>
    /\ combined_text = <<>>
    /\ total_size = 0
    /\ final_text = <<>>
    /\ s3_key = NoId
    /\ mp3_file_id = 0
    /\ exc = NoException
    /\ raised = NoException
    /\ returned = 0
    /\ storages = InitStorages
    /\ files = InitFiles
    /\ objects = InitObjects
    /\ ledger_writes = <<>>
    /\ ext_calls = <<>>
    /\ rectified = <<>>
    /\ extracted = <<>>

database == <<storages, files, objects>>
disk == <<upload_dir, upload_dir_state>>
pageLocals == <<idx, image_paths, combined_text, total_size, rectified, extracted>>
lateLocals == <<final_text, s3_key, mp3_file_id>>
outcome == <<exc, raised, returned>>

\* the state of one call of TTSUtil.convert_text_to_speech
VARIABLES
    tts_text,         \* the text argument
    text_parts,
    audio_binaries,
    final_audio,
    tts_key,          \* the key returned
    combine_dir,      \* files of /tmp/audio_combine: <<name, bytes>>
    combine_dir_made  \* whether /tmp/audio_combine exists

ttsVars ==
    <<tts_text, text_parts, audio_binaries, final_audio, tts_key, combine_dir,
      combine_dir_made>>

TtsInit ==
    /\ tts_text = <<>>
    /\ text_parts = <<>>
    /\ audio_binaries = <<>>
    /\ final_audio = <<>>
    /\ tts_key = NoId
    /\ combine_dir = {}
    /\ combine_dir_made = FALSE

\* concurrent calls of process_images by one user into one collection
VARIABLES
    c_pc,          \* where each call stands
    c_storage,     \* the file_count in the document each call's find_one returned
    c_storage_id,  \* each call's storage_id
    c_idx,         \* each call's page index
    file_count     \* the collection's counter in the database

concVars == <<c_pc, c_storage, c_storage_id, c_idx, file_count>>

Calls == 1..NumCalls

ConcOff ==
    /\ c_pc = [c \in Calls |-> "off"]
    /\ c_storage = [c \in Calls |-> 0]
    /\ c_storage_id = [c \in Calls |-> NoId]
    /\ c_idx = [c \in Calls |-> 0]
    /\ file_count = InitStorages["s_book"].file_count

\* one call of transform_image
VARIABLES
    q_pc,
    q_vertices,    \* the vertices argument
    q_out          \* what the call gave: [exc, bytes]

quadVars == <<q_pc, q_vertices, q_out>>

QuadOff ==
    /\ q_pc = "off"
    /\ q_vertices = <<>>
    /\ q_out = [exc |-> NoException, bytes |-> EmptyBytes]

auxVars == <<concVars, quadVars>>

\* the client posts the form; neither upload_images nor process_images looks at
\* the number of files, so the list may be empty
Submit ==
    /\ pc = "idle"
    /\ \E sn \in StorageNameChoices, u \in UserChoices,
          fs \in SeqsUpTo(FileChoices, MaxPages),
          pv \in VerticesDataChoices :
            req' = [storage_name |-> sn, user_id |-> u, files |-> fs,
                    pages_vertices_data |-> pv]
    /\ pc' = "route"
    /\ UNCHANGED <<vertices_data, user, storage_id, disk, pageLocals, lateLocals,
                   outcome, database, ledger_writes, ext_calls>>
    /\ UNCHANGED splitVars
    /\ UNCHANGED auxVars
    /\ UNCHANGED ttsVars

\* the route checking only that the field is a list
RouteRejectsNonListOnly(pv) == pv.kind = "not_a_list"

\* routes/image.py lines 87-102: the list must hold only null or 4-point entries
RouteRejects(pv) ==
    \/ pv.kind = "not_a_list"
    \/ /\ pv.kind = "list"
       /\ \E i \in 1..Len(pv.items) :
            ~pv.items[i].is_none /\ Len(pv.items[i].points) # 4

\* upload_images up to the call of process_images
upload_images ==
    /\ pc = "route"
    /\ IF RouteRejects(req.pages_vertices_data)
       THEN /\ raised' = HTTPException(400,
                   IF req.pages_vertices_data.kind = "not_a_list"
                   THEN "Vertices data must be a list"
                   ELSE "Each vertices set must have exactly 4 points")
            /\ pc' = "raised"
            /\ UNCHANGED vertices_data
       ELSE /\ vertices_data' =
                   IF req.pages_vertices_data.kind = "list"
                   THEN VerticesData(req.pages_vertices_data.items)
                   ELSE NoVerticesData
            /\ pc' = "process_images"
            /\ UNCHANGED raised
    /\ UNCHANGED <<req, user, storage_id, disk, pageLocals, lateLocals, exc,
                   returned, database, ledger_writes, ext_calls>>
    /\ UNCHANGED splitVars
    /\ UNCHANGED auxVars
    /\ UNCHANGED ttsVars

\* the name check left out
NameAllowedAlways(storage_name) == TRUE

\* line 196: "storage_name in self.ALLOWED_STORAGE_NAMES"
NameAllowed(storage_name) == storage_name \in ALLOWED_STORAGE_NAMES

\* process_images lines 195-212: name check, user lookup, upload directory
process_images_entry ==
    /\ pc = "process_images"
    /\ IF ~NameAllowed(req.storage_name)
       THEN /\ raised' = HTTPException(400, "Invalid storage name")
            /\ pc' = "raised"
            /\ UNCHANGED <<user, disk>>
       ELSE IF find_user(req.user_id) = NoId
       THEN /\ raised' = HTTPException(404, "User not found")
            /\ pc' = "raised"
            /\ UNCHANGED <<user, disk>>
       ELSE /\ user' = find_user(req.user_id)
            /\ upload_dir_state' = "made"
            /\ upload_dir' = {}
            /\ pc' = "reserve"
            /\ UNCHANGED raised
    /\ UNCHANGED <<req, vertices_data, storage_id, pageLocals, lateLocals, exc,
                   returned, database, ledger_writes, ext_calls>>
    /\ UNCHANGED splitVars
    /\ UNCHANGED auxVars
    /\ UNCHANGED ttsVars

\* one item counted per uploaded file
FileCountPerFile(fs) == Len(fs)

\* line 219: one request adds one item, whatever the number of its files
FileCountDelta(fs) == 1

\* update_storage_count (lines 74-95), called at line 216
Reserve ==
    /\ pc = "reserve"
    /\ LET sid == find_storage(storages, user, req.storage_name)
       IN  IF sid = NoId
           THEN /\ exc' = HTTPException(404, "Storage not found for this user")
                /\ pc' = "except"
                /\ UNCHANGED <<storage_id, storages, ledger_writes>>
           ELSE /\ storages' = inc_file_count(storages, sid, FileCountDelta(req.files))
                /\ ledger_writes' =
                       Append(ledger_writes, <<sid, FileCountDelta(req.files)>>)
                /\ storage_id' = sid
                /\ pc' = "pages"
                /\ UNCHANGED exc
    /\ UNCHANGED <<req, vertices_data, user, disk, pageLocals, lateLocals, raised,
                   returned, files, objects, ext_calls>>
    /\ UNCHANGED splitVars
    /\ UNCHANGED auxVars
    /\ UNCHANGED ttsVars

\* line 234: whether page i (zero-based) is to be transformed
HasVertices(vd, i) ==
    /\ ~vd.is_none
    /\ vd.items # <<>>
    /\ Len(vd.items) > i
    /\ ~vd.items[i + 1].is_none

IoChoices == {"ok", "IOError"}

\* the body of the page loop for page i (lines 227-255):
\* [exc, wrote, bytes, called, texts]
PageStep(file, i, vd, rd, cv, wr, answer) ==
    LET failed(e) == [exc |-> e, wrote |-> FALSE, bytes |-> EmptyBytes,
                      called |-> FALSE, texts |-> <<>>]
        t == IF HasVertices(vd, i)
             THEN transform_image(file.content, vd.items[i + 1].points, cv)
             ELSE [exc |-> NoException, bytes |-> file.content]
        ocr == _call_clova_ocr(file, answer)
    IN  IF rd = "IOError"
        THEN failed(HTTPException(400, "Failed to process file: read"))
        ELSE IF file.content.size = 0
        THEN failed(HTTPException(400, "Empty file"))
        ELSE IF t.exc # NoException
        THEN failed(t.exc)
        ELSE IF wr = "IOError"
        THEN failed(HTTPException(400, "Failed to process file: write"))
        ELSE [exc |-> ocr.exc, wrote |-> TRUE, bytes |-> t.bytes,
              called |-> OcrSizeOk(file), texts |-> ocr.texts]

\* every OCR request recorded against the first page
OcrCallPageZero(i, file) ==
    [svc |-> "ocr", page |-> 0, image |-> file.content, text |-> <<>>]

OcrCall(i, file) ==
    [svc |-> "ocr", page |-> i, image |-> file.content, text |-> <<>>]
TtsCall(text) ==
    [svc |-> "tts", page |-> 0, image |-> EmptyBytes, text |-> text]

\* one round of "for idx, file in enumerate(files)"
ProcessPage ==
    /\ pc = "pages"
    /\ idx < Len(req.files)
    /\ \E rd \in IoChoices, cv \in CvChoices, wr \in IoChoices, answer \in OcrChoices :
        LET file == req.files[idx + 1]
            r == PageStep(file, idx, vertices_data, rd, cv, wr, answer)
        IN  /\ IF r.wrote
               THEN /\ upload_dir' = WriteFile(upload_dir, file.filename, r.bytes)
                    /\ image_paths' = Append(image_paths, file.filename)
                    /\ total_size' = total_size + r.bytes.size
                    /\ rectified' = Append(rectified, r.bytes)
               ELSE UNCHANGED <<upload_dir, image_paths, total_size, rectified>>
            /\ ext_calls' = IF r.called THEN Append(ext_calls, OcrCall(idx, file))
                            ELSE ext_calls
            /\ IF r.exc # NoException
               THEN /\ exc' = r.exc
                    /\ pc' = "except"
                    /\ UNCHANGED <<idx, combined_text, extracted>>
               ELSE /\ combined_text' = Extend(combined_text, r.texts)
                    /\ extracted' = Append(extracted, [page |-> idx, texts |-> r.texts])
                    /\ idx' = idx + 1
                    /\ pc' = "pages"
                    /\ UNCHANGED exc
    /\ UNCHANGED <<req, vertices_data, user, storage_id, upload_dir_state, lateLocals,
                   raised, returned, database, ledger_writes>>
    /\ UNCHANGED splitVars
    /\ UNCHANGED auxVars
    /\ UNCHANGED ttsVars

\* lines 257-261: join the texts, one speech request, one upload
Synthesize ==
    /\ pc = "pages"
    /\ idx = Len(req.files)
    /\ \E answer \in TtsChoices :
        LET text == JoinSpace(combined_text)
            r == _call_naver_tts(text, answer)
        IN  /\ final_text' = text
            /\ ext_calls' = Append(ext_calls, TtsCall(text))
            /\ objects' = objects \cup r.put
            /\ IF r.exc # NoException
               THEN /\ exc' = r.exc
                    /\ pc' = "except"
                    /\ UNCHANGED s3_key
               ELSE /\ s3_key' = r.s3_key
                    /\ pc' = "save"
                    /\ UNCHANGED exc
    /\ UNCHANGED <<req, vertices_data, user, storage_id, disk, pageLocals, mp3_file_id,
                   raised, returned, storages, files, ledger_writes>>
    /\ UNCHANGED splitVars
    /\ UNCHANGED auxVars
    /\ UNCHANGED ttsVars

DbChoices == {"ok", "fails"}

\* the audio's record written as a derived one
PrimaryDocDerived(sid, uid, key, text, size) ==
    [storage_id |-> sid, user_id |-> uid, s3_key |-> key, mime_type |-> "audio/mp3",
     is_primary |-> FALSE, primary_file_id |-> 0, contents |-> text,
     file_size |-> size]

\* the document save_file_metadata inserts (lines 101-113)
PrimaryDoc(sid, uid, key, text, size) ==
    [storage_id |-> sid, user_id |-> uid, s3_key |-> key, mime_type |-> "audio/mp3",
     is_primary |-> TRUE, primary_file_id |-> 0, contents |-> text,
     file_size |-> size]

\* lines 264-280: the audio's record, the primary one
SavePrimary ==
    /\ pc = "save"
    /\ \E db \in DbChoices :
        IF db = "fails"
        THEN /\ exc' = OtherException("insert_one failed")
             /\ pc' = "except"
             /\ UNCHANGED <<files, mp3_file_id>>
        ELSE /\ files' = Append(files,
                    PrimaryDoc(storage_id, user, s3_key, final_text, total_size))
             /\ mp3_file_id' = Len(files) + 1
             /\ pc' = "pdf"
             /\ UNCHANGED exc
    /\ UNCHANGED <<req, vertices_data, user, storage_id, disk, pageLocals, final_text,
                   s3_key, raised, returned, storages, objects, ledger_writes,
                   ext_calls>>
    /\ UNCHANGED splitVars
    /\ UNCHANGED auxVars
    /\ UNCHANGED ttsVars

(***************************************************************************)
(* StorageService.create_pdf_from_images and the end of process_images     *)
(***************************************************************************)
\* img2pdf.convert(image_paths): the pages are read from the paths, in order
PdfPages(dir, paths) == [i \in 1..Len(paths) |-> ReadFile(dir, paths[i])]

RECURSIVE SumSizes(_)
SumSizes(pages) ==
    IF pages = <<>> THEN 0 ELSE Head(pages).size + SumSizes(Tail(pages))

\* the PDF's record without its link to the audio's record
PdfDocUnlinked(sid, uid, key, primary_file_id, size) ==
    [storage_id |-> sid, user_id |-> uid, s3_key |-> key,
     mime_type |-> "application/pdf", is_primary |-> FALSE,
     primary_file_id |-> 0, contents |-> <<>>, file_size |-> size]

\* the document create_pdf_from_images inserts (lines 363-374)
PdfDoc(sid, uid, key, primary_file_id, size) ==
    [storage_id |-> sid, user_id |-> uid, s3_key |-> key,
     mime_type |-> "application/pdf", is_primary |-> FALSE,
     primary_file_id |-> primary_file_id, contents |-> <<>>, file_size |-> size]

PdfChoices == {"ok", "upload_fails", "insert_fails"}

\* create_pdf_from_images (lines 342-386): [exc, put, docs]
create_pdf_from_images(uid, sid, dir, paths, primary_file_id, answer) ==
    LET pages == PdfPages(dir, paths)
        failed(e, put) == [exc |-> e, put |-> put, docs |-> <<>>]
        obj == [Key |-> "pdfs/new.pdf", ContentType |-> "application/pdf",
                Body |-> PdfBody(pages)]
    IN  IF \E i \in 1..Len(pages) : ~Decodable(pages[i])
        THEN failed(HTTPException(500, "Failed to create PDF: convert"), {})
        ELSE IF answer = "upload_fails"
        THEN failed(HTTPException(500, "Failed to create PDF: upload"), {})
        ELSE IF answer = "insert_fails"
        THEN failed(HTTPException(500, "Failed to create PDF: insert_one"), {obj})
        ELSE [exc |-> NoException, put |-> {obj},
              docs |-> <<PdfDoc(sid, uid, obj.Key, primary_file_id, SumSizes(pages))>>]

\* the finally clause left out
rmtree_skipped(dir_state) == dir_state

\* line 315: shutil.rmtree(upload_dir, ignore_errors=True)
rmtree(dir_state) == "removed"

\* the files of the directory after the finally clause
AfterRmtree(dir, dir_state) == IF rmtree(dir_state) = "removed" THEN {} ELSE dir

\* lines 282-304 and the finally clause: the PDF, then the return
CreatePdf ==
    /\ pc = "pdf"
    /\ \E answer \in PdfChoices :
        LET r == IF Len(image_paths) > 0
                 THEN create_pdf_from_images(user, storage_id, upload_dir,
                                             image_paths, mp3_file_id, answer)
                 ELSE [exc |-> NoException, put |-> {}, docs |-> <<>>]
        IN  /\ objects' = objects \cup r.put
            /\ files' = files \o r.docs
            /\ IF r.exc # NoException
               THEN /\ exc' = r.exc
                    /\ pc' = "except"
                    /\ UNCHANGED <<returned, disk>>
               ELSE /\ returned' = mp3_file_id
                    /\ upload_dir' = AfterRmtree(upload_dir, upload_dir_state)
                    /\ upload_dir_state' = rmtree(upload_dir_state)
                    /\ pc' = "done"
                    /\ UNCHANGED exc
    /\ UNCHANGED <<req, vertices_data, user, storage_id, pageLocals, lateLocals,
                   raised, storages, ledger_writes, ext_calls>>
    /\ UNCHANGED splitVars
    /\ UNCHANGED auxVars
    /\ UNCHANGED ttsVars

\* the test of line 308 inverted
ShouldRollbackInverted(sid) == sid = NoId

\* line 308: "if storage_id"
ShouldRollback(sid) == sid # NoId

\* lines 306-315: the handler of process_images and its finally clause
Rollback ==
    /\ pc = "except"
    /\ IF ShouldRollback(storage_id)
       THEN /\ storages' = inc_file_count(storages, storage_id, -1)
            /\ ledger_writes' = Append(ledger_writes, <<storage_id, -1>>)
       ELSE UNCHANGED <<storages, ledger_writes>>
    /\ raised' = HTTPException(500, "An unexpected error occurred")
    /\ upload_dir' = AfterRmtree(upload_dir, upload_dir_state)
    /\ upload_dir_state' = rmtree(upload_dir_state)
    /\ pc' = "raised"
    /\ UNCHANGED <<req, vertices_data, user, storage_id, pageLocals, lateLocals, exc,
                   returned, files, objects, ext_calls>>
    /\ UNCHANGED splitVars
    /\ UNCHANGED auxVars
    /\ UNCHANGED ttsVars

(***************************************************************************)
(* TTSUtil.convert_text_to_speech and _combine_mp3_files (utils/tts_util.py)*)
(***************************************************************************)
\* max_length's default, 1900 in the source, scaled to the texts of the model
DefaultMaxLength == MaxChunk

TtsTexts == SeqsUpTo({"a", ".", " "}, MaxTextLen)

\* temp_{i}.mp3 and combined.mp3
TempName(i) == <<"temp", i>>
CombinedName == <<"combined", 0>>

\* the directory after the first k binaries were written to temp_0 .. temp_{k-1}
WriteTemps(dir, binaries, k) ==
    {e \in dir : e[1] \notin {TempName(i) : i \in 0..(k - 1)}}
        \cup {<<TempName(i), binaries[i + 1]>> : i \in 0..(k - 1)}

\* _combine_mp3_files (lines 121-160): [exc, data, dir, made];
\* fail_at = k > 0: writing the k-th temporary file raises
_combine_mp3_files(binaries, dir, fail_at) ==
    LET n == Len(binaries)
        error == HTTPException(500, "Failed to combine audio files")
        written == WriteTemps(dir, binaries, n)
        combined == Flatten([i \in 1..n |-> ReadFile(written, TempName(i - 1))])
        cleaned == {e \in written :
                      e[1] \notin ({TempName(i) : i \in 0..(n - 1)} \cup {CombinedName})}
    IN  IF fail_at \in 1..n
        THEN [exc |-> error, data |-> <<>>,
              dir |-> WriteTemps(dir, binaries, fail_at - 1), made |-> TRUE]
        ELSE IF cleaned # {}
        THEN \* os.rmdir raises on a directory that is not empty
             [exc |-> error, data |-> <<>>, dir |-> cleaned, made |-> TRUE]
        ELSE [exc |-> NoException, data |-> combined, dir |-> {}, made |-> FALSE]

\* lines 201-206: whatever is raised inside becomes a 500
TtsError == HTTPException(500, "TTS failed")

\* a caller invokes convert_text_to_speech(text, ...)
TtsStart ==
    /\ pc = "idle"
    /\ tts_text' \in TtsTexts
    /\ pc' = "tts_split"
    /\ UNCHANGED <<text_parts, audio_binaries, final_audio, tts_key, combine_dir,
                   combine_dir_made>>
    /\ UNCHANGED <<req, vertices_data, user, storage_id, disk, pageLocals,
                   lateLocals, outcome, database, ledger_writes, ext_calls>>
    /\ UNCHANGED splitVars
    /\ UNCHANGED auxVars

\* lines 176-177
TtsSplit ==
    /\ pc = "tts_split"
    /\ text_parts' = _split_text(tts_text, DefaultMaxLength)
    /\ audio_binaries' = <<>>
    /\ pc' = "tts_loop"
    /\ UNCHANGED <<tts_text, final_audio, tts_key, combine_dir, combine_dir_made>>
    /\ UNCHANGED <<req, vertices_data, user, storage_id, disk, pageLocals,
                   lateLocals, outcome, database, ledger_writes, ext_calls>>
    /\ UNCHANGED splitVars
    /\ UNCHANGED auxVars

\* audio_binaries.append(audio_binary)
AppendAudio(binaries, audio) == Append(binaries, audio)

\* lines 180-182: one round of "for part in text_parts"
TtsRequest ==
    /\ pc = "tts_loop"
    /\ Len(audio_binaries) < Len(text_parts)
    /\ LET part == text_parts[Len(audio_binaries) + 1]
       IN  /\ ext_calls' = Append(ext_calls, TtsCall(part))
           /\ \E answer \in {"ok", "fails"} :
                IF answer = "fails"
                THEN /\ raised' = TtsError
                     /\ pc' = "tts_raised"
                     /\ UNCHANGED audio_binaries
                ELSE /\ audio_binaries' = AppendAudio(audio_binaries, Speech(part))
                     /\ pc' = "tts_loop"
                     /\ UNCHANGED raised
    /\ UNCHANGED <<tts_text, text_parts, final_audio, tts_key, combine_dir,
                   combine_dir_made>>
    /\ UNCHANGED <<req, vertices_data, user, storage_id, disk, pageLocals,
                   lateLocals, exc, returned, database, ledger_writes>>
    /\ UNCHANGED splitVars
    /\ UNCHANGED auxVars

\* line 185
TtsCombine ==
    /\ pc = "tts_loop"
    /\ Len(audio_binaries) = Len(text_parts)
    /\ \E fail_at \in 0..Len(audio_binaries) :
        LET r == _combine_mp3_files(audio_binaries, combine_dir, fail_at)
        IN  /\ combine_dir' = r.dir
            /\ combine_dir_made' = r.made
            /\ IF r.exc # NoException
               THEN /\ raised' = TtsError
                    /\ pc' = "tts_raised"
                    /\ UNCHANGED final_audio
               ELSE /\ final_audio' = r.data
                    /\ pc' = "tts_upload"
                    /\ UNCHANGED raised
    /\ UNCHANGED <<tts_text, text_parts, audio_binaries, tts_key>>
    /\ UNCHANGED <<req, vertices_data, user, storage_id, disk, pageLocals,
                   lateLocals, exc, returned, database, ledger_writes, ext_calls>>
    /\ UNCHANGED splitVars
    /\ UNCHANGED auxVars

\* lines 188-199
TtsUpload ==
    /\ pc = "tts_upload"
    /\ \E answer \in {"ok", "fails"} :
        IF answer = "fails"
        THEN /\ raised' = TtsError
             /\ pc' = "tts_raised"
             /\ UNCHANGED <<objects, tts_key>>
        ELSE /\ objects' = objects \cup
                    {[Key |-> "tts/filename/title.mp3", ContentType |-> "audio/mp3",
                      Body |-> AudioBody(final_audio)]}
             /\ tts_key' = "tts/filename/title.mp3"
             /\ pc' = "tts_done"
             /\ UNCHANGED raised
    /\ UNCHANGED <<tts_text, text_parts, audio_binaries, final_audio, combine_dir,
                   combine_dir_made>>
    /\ UNCHANGED <<req, vertices_data, user, storage_id, disk, pageLocals,
                   lateLocals, exc, returned, storages, files, ledger_writes,
                   ext_calls>>
    /\ UNCHANGED splitVars
    /\ UNCHANGED auxVars

TtsNext == TtsStart \/ TtsSplit \/ TtsRequest \/ TtsCombine \/ TtsUpload

(***************************************************************************)
(* Concurrent calls of process_images into one collection: what each call  *)
(* does to the counter (update_storage_count, the handler at line 306).    *)
(***************************************************************************)
ConcInit ==
    /\ c_pc = [c \in Calls |-> "call"]
    /\ c_storage = [c \in Calls |-> 0]
    /\ c_storage_id = [c \in Calls |-> NoId]
    /\ c_idx = [c \in Calls |-> 0]
    /\ file_count = InitStorages["s_book"].file_count

\* the counter written from the value the application read earlier
IncFromRead(current, read, delta) == read + delta

\* {"$inc": {"file_count": delta}}: the database adds to the value it holds
Inc(current, read, delta) == current + delta

ConcIdle == UNCHANGED <<pipeVars, ttsVars, splitVars, quadVars>>

\* update_storage_count lines 76-79: find_one returns the collection's document
FindStorage(c) ==
    /\ c_pc[c] = "call"
    /\ c_storage' = [c_storage EXCEPT ![c] = file_count]
    /\ c_pc' = [c_pc EXCEPT ![c] = "found"]
    /\ UNCHANGED <<c_storage_id, c_idx, file_count>>
    /\ ConcIdle

\* update_storage_count lines 88-95: update_one with $inc, then the id returned
IncStorage(c) ==
    /\ c_pc[c] = "found"
    /\ file_count' = Inc(file_count, c_storage[c], FileCountDelta(<<>>))
    /\ c_storage_id' = [c_storage_id EXCEPT ![c] = "s_book"]
    /\ c_pc' = [c_pc EXCEPT ![c] = "pages"]
    /\ UNCHANGED <<c_storage, c_idx>>
    /\ ConcIdle

\* lines 226-255: one page, awaited; it is processed or it raises
ConcPage(c) ==
    /\ c_pc[c] = "pages"
    /\ c_idx[c] < MaxPages
    /\ \E ok \in BOOLEAN :
        IF ok
        THEN c_idx' = [c_idx EXCEPT ![c] = @ + 1] /\ UNCHANGED c_pc
        ELSE c_pc' = [c_pc EXCEPT ![c] = "except"] /\ UNCHANGED c_idx
    /\ UNCHANGED <<c_storage, c_storage_id, file_count>>
    /\ ConcIdle

\* lines 257-304: speech, records and PDF, awaited; the call returns or raises
ConcCommit(c) ==
    /\ c_pc[c] = "pages"
    /\ \E ok \in BOOLEAN :
        c_pc' = [c_pc EXCEPT ![c] = IF ok THEN "done" ELSE "except"]
    /\ UNCHANGED <<c_storage, c_storage_id, c_idx, file_count>>
    /\ ConcIdle

\* lines 306-313: the handler's update_one with $inc -1, then the 500
ConcRollback(c) ==
    /\ c_pc[c] = "except"
    /\ file_count' = IF ShouldRollback(c_storage_id[c])
                     THEN Inc(file_count, c_storage[c] + 1, -1)
                     ELSE file_count
    /\ c_pc' = [c_pc EXCEPT ![c] = "raised"]
    /\ UNCHANGED <<c_storage, c_storage_id, c_idx>>
    /\ ConcIdle

SomeFindStorage == \E c \in Calls : FindStorage(c)
SomeIncStorage == \E c \in Calls : IncStorage(c)
SomePage == \E c \in Calls : ConcPage(c)
SomeCommit == \E c \in Calls : ConcCommit(c)
SomeRollback == \E c \in Calls : ConcRollback(c)

ConcNext ==
    \/ SomeFindStorage
    \/ SomeIncStorage
    \/ SomePage
    \/ SomeCommit
    \/ SomeRollback

(***************************************************************************)
(* One call of transform_image on a decodable image.                       *)
(***************************************************************************)
GridPoints == {Point(x, y) : x \in 0..MaxCoord, y \in 0..MaxCoord}

QuadInit ==
    /\ q_pc = "call"
    /\ q_vertices \in [1..4 -> GridPoints]
    /\ q_out = [exc |-> NoException, bytes |-> EmptyBytes]

TransformCall ==
    /\ q_pc = "call"
    /\ \E cv \in CvChoices : q_out' = transform_image(ImgA, q_vertices, cv)
    /\ q_pc' = "returned"
    /\ UNCHANGED q_vertices
    /\ UNCHANGED <<pipeVars, ttsVars, splitVars, concVars>>

QuadNext == TransformCall

PipeNext ==
    \/ Submit
    \/ upload_images
    \/ process_images_entry
    \/ Reserve
    \/ ProcessPage
    \/ Synthesize
    \/ SavePrimary
    \/ CreatePdf
    \/ Rollback

vars == <<pipeVars, ttsVars, splitVars, auxVars>>

Init == PipeInit /\ TtsInit /\ SplitOff /\ ConcOff /\ QuadOff

Next == PipeNext \/ TtsNext

Spec == Init /\ [][Next]_vars

ConcSpecInit == ConcInit /\ PipeInit /\ TtsInit /\ SplitOff /\ QuadOff

ConcSpec == ConcSpecInit /\ [][ConcNext]_vars

QuadSpecInit == QuadInit /\ PipeInit /\ TtsInit /\ SplitOff /\ ConcOff

QuadSpec == QuadSpecInit /\ [][QuadNext]_vars

(***************************************************************************)
(* Claims about the ingestion pipeline, checked under Spec.                *)
(***************************************************************************)
\* the request ended with an error at the caller
Failed == pc = "raised"
\* the request ended with a file_id at the caller
Succeeded == pc = "done"
\* update_storage_count returned: the counter was incremented
Reserved == storage_id # NoId
\* the records this request inserted
NewFiles == {i \in 1..Len(files) : i > Len(InitFiles)}

\* C1: a call that fails after the counter increment leaves every counter at its
\* value before the call, the decrement being applied by the time the error
\* reaches the caller.
C1_LedgerCompensation ==
    (Failed /\ Reserved) =>
        /\ storages = InitStorages
        /\ ledger_writes = <<<<storage_id, 1>>, <<storage_id, -1>>>>

\* a call that failed after the primary record was written
C1_Witness ==
    /\ Failed
    /\ Reserved
    /\ NewFiles # {}
    /\ exc.detail = "Failed to create PDF: insert_one"

\* C2: a successful call adds exactly 1 to the destination's counter, whatever
\* the number of pages, and changes no other counter.
C2_OneItemPerBatch ==
    Succeeded =>
        /\ Reserved
        /\ storages[storage_id].name = req.storage_name
        /\ storages = [InitStorages EXCEPT ![storage_id].file_count = @ + 1]
        /\ ledger_writes = <<<<storage_id, 1>>>>

\* a successful call with two or more pages
C2_Witness == Succeeded /\ Len(req.files) >= 2

\* C3: after a successful call exactly one of its records is primary, the
\* audio's, whose id is returned; every other record of the call is not primary,
\* refers to that id and lies in the same collection.
C3_PrimaryDerived ==
    Succeeded =>
        /\ returned \in NewFiles
        /\ files[returned].is_primary
        /\ files[returned].mime_type = "audio/mp3"
        /\ \A i \in NewFiles \ {returned} :
            /\ ~files[i].is_primary
            /\ files[i].primary_file_id = returned
            /\ files[i].storage_id = files[returned].storage_id

\* a successful call that wrote the audio's record and the PDF's record
C3_Witness == Succeeded /\ Cardinality(NewFiles) = 2

\* C4: whenever a call fails, the object store holds exactly what it held before.
C4_ObjectStoreRestored ==
    Failed => objects = InitObjects

\* C5: the first record is written only once PDF compilation has succeeded, so a
\* call whose PDF compilation fails leaves no record.
C5_CommitAfterProcessing ==
    /\ (pc = "pdf" => NewFiles = {})
    /\ (exc.detail = "Failed to create PDF: convert" => NewFiles = {})

\* the OCR answers in page order
ExtractedInOrder == [i \in 1..Len(extracted) |-> extracted[i].texts]

\* C8: the narration text is the space-joined fragments of the pages in page
\* order, and the stored audio is the chunks' audio in chunk order.
C8_IndexOrder ==
    /\ (pc \in {"save", "pdf", "done"} =>
            /\ \A i \in 1..Len(extracted) : extracted[i].page = i - 1
            /\ final_text = JoinSpace(Flatten(ExtractedInOrder))
            /\ \E o \in objects :
                o.Key = s3_key /\ o.Body = AudioBody(Speech(final_text)))
    /\ (pc \in {"tts_upload", "tts_done"} =>
            final_audio = Flatten([i \in 1..Len(text_parts) |-> Speech(text_parts[i])]))
    /\ (pc = "tts_done" =>
            \E o \in objects : o.Key = tts_key /\ o.Body = AudioBody(final_audio))

\* a successful call whose two pages gave different texts
C8_Witness ==
    /\ Succeeded
    /\ Len(extracted) = 2
    /\ extracted[1].texts # extracted[2].texts

\* some entry of the submitted list is a quad without exactly 4 points
HasBadQuad ==
    /\ req.pages_vertices_data.kind = "list"
    /\ \E i \in 1..Len(req.pages_vertices_data.items) :
        /\ ~req.pages_vertices_data.items[i].is_none
        /\ Len(req.pages_vertices_data.items[i].points) # 4

\* C9: a request with a quad that has not exactly 4 points fails with a 400
\* before the counter is touched; no object and no record is written.
C9_BadQuadRejectedEarly ==
    (HasBadQuad /\ pc \notin {"idle", "route"}) =>
        /\ Failed
        /\ raised.status_code = 400
        /\ ledger_writes = <<>>
        /\ storages = InitStorages
        /\ objects = InitObjects
        /\ files = InitFiles
        /\ ext_calls = <<>>

\* two valid pages into an existing collection, the second with a 3-point quad
C9_Witness ==
    /\ Failed
    /\ req.storage_name = "book"
    /\ req.user_id = "kim@nongmo"
    /\ Len(req.files) = 2
    /\ req.pages_vertices_data = FormList(<<NoVertices, Vertices(Quad3)>>)

\* C10: an unknown collection name fails with a 400 and nothing is touched:
\* no counter, no upload directory, no external call, no object, no record.
C10_UnknownNameRejected ==
    (req # NoRequest
        /\ req.storage_name \notin ALLOWED_STORAGE_NAMES
        /\ pc \notin {"idle", "route", "process_images"}) =>
        /\ Failed
        /\ raised.status_code = 400
        /\ ledger_writes = <<>>
        /\ storages = InitStorages
        /\ upload_dir_state = "never"
        /\ ext_calls = <<>>
        /\ objects = InitObjects
        /\ files = InitFiles

\* an unknown name on an otherwise valid request, rejected by process_images
C10_Witness ==
    /\ Failed
    /\ req.storage_name = "memo"
    /\ raised.detail = "Invalid storage name"
    /\ Len(req.files) >= 1

\* a speech request was sent
TtsCalled == \E i \in 1..Len(ext_calls) : ext_calls[i].svc = "tts"

\* the request names an allowed collection that its (known) user does not have
StorageMissing ==
    /\ req # NoRequest
    /\ NameAllowed(req.storage_name)
    /\ find_user(req.user_id) # NoId
    /\ find_storage(InitStorages, find_user(req.user_id), req.storage_name) = NoId

\* process_images got past its name check and user lookup, and the collection
\* exists: nothing but the pages can make the call fail while validating
PagesDecide == upload_dir_state # "never" /\ ~StorageMissing

\* C11: a call with an empty page list is rejected while validating: the counter
\* is never incremented, the speech service is never called, no record is written.
C11_EmptyBatchRejected ==
    (PagesDecide /\ req.files = <<>>) =>
        /\ ledger_writes = <<>>
        /\ ~TtsCalled
        /\ files = InitFiles
        /\ ~Succeeded
        /\ (Failed => raised.status_code = 400)

\* some page of the request is empty or larger than MAX_FILE_SIZE
HasBadSizePage ==
    \E i \in 1..Len(req.files) :
        \/ req.files[i].content.size < MIN_FILE_SIZE
        \/ req.files[i].content.size > MAX_FILE_SIZE

\* C12: a call with an empty or oversized page fails with a 400 and never writes
\* the counter, not even to restore it.
C12_BadSizeNeverReserves ==
    (PagesDecide /\ HasBadSizePage) =>
        /\ ledger_writes = <<>>
        /\ storages = InitStorages
        /\ ~Succeeded
        /\ (Failed => raised.status_code = 400)

\* C13: a call into a collection the user does not have fails with a 404, which
\* the caller can tell from the other errors, and writes no counter at all.
C13_MissingCollectionNotFound ==
    (StorageMissing /\ upload_dir_state # "never") =>
        /\ ledger_writes = <<>>
        /\ storages = InitStorages
        /\ ~Succeeded
        /\ (Failed => raised.status_code = 404)

\* the steps of upload_images and process_images once the form has arrived
Handler ==
    \/ upload_images
    \/ process_images_entry
    \/ Reserve
    \/ ProcessPage
    \/ Synthesize
    \/ SavePrimary
    \/ CreatePdf
    \/ Rollback

\* the handler is a coroutine the event loop runs to its end: a step of it that
\* can be taken is taken; nothing obliges a client to post a form
LiveSpec == Init /\ [][PipeNext]_vars /\ WF_vars(Handler)

\* the destination's counter stands d above its value before the call, and no
\* other counter moved
CounterNet(d) == storages = inc_file_count(InitStorages, storage_id, d)

\* the PDF's record of this request, linked to the returned primary record
DerivedWritten ==
    \E i \in NewFiles : ~files[i].is_primary /\ files[i].primary_file_id = returned

PrimaryReturned ==
    /\ raised = NoException
    /\ returned \in NewFiles
    /\ files[returned].is_primary

\* Done as the claim has it: both records written
DoneWithBoth == Succeeded /\ CounterNet(1) /\ PrimaryReturned /\ DerivedWritten

\* Done as the code has it: line 284 skips the PDF when no image was stored
DoneOutcome ==
    /\ Succeeded
    /\ CounterNet(1)
    /\ PrimaryReturned
    /\ (image_paths # <<>> => DerivedWritten)

RolledBackOutcome ==
    /\ Failed
    /\ CounterNet(0)
    /\ raised # NoException
    /\ returned = 0

C16_ErrorKindKept ==
    (Failed /\ Reserved /\ exc.type = "HTTPException") =>
        /\ raised.type = "HTTPException"
        /\ raised.status_code = exc.status_code

\* C17: once the upload directory was made, it and the files written into it
\* are gone when the call returns or raises.
C17_TempDirRemoved ==
    ((Succeeded \/ Failed) /\ upload_dir_state # "never") =>
        /\ upload_dir_state = "removed"
        /\ upload_dir = {}

\* a call that wrote a page into its directory and then failed
C17_Witness ==
    /\ Failed
    /\ rectified # <<>>
    /\ upload_dir_state = "removed"

\* the PDF objects this request stored
NewPdfs == {o \in objects \ InitObjects : o.ContentType = "application/pdf"}

\* C18: a page without a quad is never handed to transform_image, and the image
\* stored for it and compiled into the PDF is the submitted image, byte for byte.
C18_PassThrough ==
    \A i \in 1..Len(req.files) :
        ~HasVertices(vertices_data, i - 1) =>
            /\ (i <= Len(rectified) =>
                    /\ ~rectified[i].warped
                    /\ rectified[i] = req.files[i].content)
            /\ \A o \in NewPdfs : o.Body.pages[i] = req.files[i].content

\* C20: every request sent to the speech service during a call carries at most
\* MAX_CHUNK characters.
C20_SpeechRequestBounded ==
    \A i \in 1..Len(ext_calls) :
        ext_calls[i].svc = "tts" => Len(ext_calls[i].text) <= DefaultMaxLength

(***************************************************************************)
(* Claims about concurrent calls, checked under ConcSpec.                  *)
(***************************************************************************)
\* the calls whose increment is applied and not taken back
Holding == {c \in Calls : c_pc[c] \in {"pages", "except", "done"}}

AllFinished == \A c \in Calls : c_pc[c] \in {"done", "raised"}

\* C15: whatever the interleaving of the calls' steps, the counter is its value
\* at start plus one for each call that has incremented and not decremented;
\* once all calls have finished it is the value at start plus the number of
\* calls that succeeded.
C15_CounterCountsSuccesses ==
    /\ file_count = InitStorages["s_book"].file_count + Cardinality(Holding)
    /\ (AllFinished =>
            file_count = InitStorages["s_book"].file_count
                            + Cardinality({c \in Calls : c_pc[c] = "done"}))

\* all calls finished, two of them having read the same counter value before
\* either wrote, one succeeding and one failing
C15_Witness ==
    /\ AllFinished
    /\ \E c, d \in Calls :
        /\ c # d
        /\ c_storage[c] = c_storage[d]
        /\ c_pc[c] = "done"
        /\ c_pc[d] = "raised"

(***************************************************************************)
(* Claims about transform_image, checked under QuadSpec.                   *)
(***************************************************************************)
\* round(sqrt(n)) for an integer n
RoundSqrt(n) == (ISqrt(4 * n) + 1) \div 2

Abs(n) == IF n < 0 THEN 0 - n ELSE n

\* squares of the sides' lengths: max(|p0-p1|, |p3-p2|) and max(|p0-p3|, |p1-p2|)
WidthSquared(v) == Max(Dist2(v[1], v[2]), Dist2(v[4], v[3]))
HeightSquared(v) == Max(Dist2(v[1], v[4]), Dist2(v[2], v[3]))

\* a quad with sides: the output has at least one pixel each way
ValidQuad(v) == Len(v) = 4 /\ WidthSquared(v) >= 1 /\ HeightSquared(v) >= 1

\* C19: for a valid 4-point quad the image transform_image returns is within one
\* pixel of round(max(|p0-p1|, |p3-p2|)) wide and round(max(|p0-p3|, |p1-p2|))
\* high.
C19_RectifiedSize ==
    (q_pc = "returned" /\ ValidQuad(q_vertices)) =>
        /\ q_out.exc = NoException
        /\ q_out.bytes.warped
        /\ Abs(q_out.bytes.w - RoundSqrt(WidthSquared(q_vertices))) <= 1
        /\ Abs(q_out.bytes.h - RoundSqrt(HeightSquared(q_vertices))) <= 1

\* a quad whose width int() rounds down and round() rounds up (sqrt 8)
C19_Witness ==
    /\ q_pc = "returned"
    /\ ValidQuad(q_vertices)
    /\ q_out.bytes.w # RoundSqrt(WidthSquared(q_vertices))
    /\ q_out.bytes.h = RoundSqrt(HeightSquared(q_vertices))

(***************************************************************************)
(* The steps of one call of _split_text.                                   *)
(***************************************************************************)
\* lines 48-51: a short text is returned whole
SplitEntry ==
    /\ sp_pc = "entry"
    /\ IF Len(sp_text) <= sp_max
       THEN /\ sp_parts' = <<sp_text>>
            /\ sp_kinds' = <<"whole">>
            /\ sp_pc' = "returned"
       ELSE /\ sp_parts' = <<>>
            /\ sp_kinds' = <<>>
            /\ sp_pc' = "loop"
    /\ UNCHANGED <<sp_input, sp_max, sp_text, sp_rounds>>
    /\ UNCHANGED pipeVars
    /\ UNCHANGED ttsVars
    /\ UNCHANGED auxVars

\* lines 52-70: one round of the while loop
SplitRound ==
    /\ sp_pc = "loop"
    /\ sp_text # <<>>
    /\ IF Len(sp_text) <= sp_max
       THEN /\ sp_parts' = Append(sp_parts, sp_text)
            /\ sp_kinds' = Append(sp_kinds, "rest")
            /\ sp_pc' = "returned"
            /\ UNCHANGED <<sp_text, sp_rounds>>
       ELSE LET split_pos == FindSplitPos(sp_text, sp_max)
            IN  /\ sp_parts' = Append(sp_parts, Take(sp_text, split_pos))
                /\ sp_kinds' = Append(sp_kinds,
                       IF FoundTerminator(sp_text, sp_max) THEN "sentence" ELSE "hard")
                /\ sp_text' = Remainder(sp_text, split_pos)
                /\ sp_rounds' = Append(sp_rounds,
                       <<Len(sp_text), Len(Remainder(sp_text, split_pos))>>)
                /\ sp_pc' = "loop"
    /\ UNCHANGED <<sp_input, sp_max>>
    /\ UNCHANGED pipeVars
    /\ UNCHANGED ttsVars
    /\ UNCHANGED auxVars

\* line 52 false, line 72: the loop ends on an empty text
SplitExit ==
    /\ sp_pc = "loop"
    /\ sp_text = <<>>
    /\ sp_pc' = "returned"
    /\ UNCHANGED <<sp_input, sp_max, sp_text, sp_parts, sp_kinds, sp_rounds>>
    /\ UNCHANGED pipeVars
    /\ UNCHANGED ttsVars
    /\ UNCHANGED auxVars

SplitNext == SplitEntry \/ SplitRound \/ SplitExit

SplitSpecInit == SplitInit /\ PipeInit /\ TtsInit /\ ConcOff /\ QuadOff

SplitSpec == SplitSpecInit /\ [][SplitNext]_vars

\* _split_text is straight-line code in one thread: a call that can take its
\* next step takes it
SplitLiveSpec == SplitSpecInit /\ [][SplitNext]_vars /\ WF_vars(SplitNext)

(***************************************************************************)
(* Claims about the splitter, checked under SplitSpec.                     *)
(***************************************************************************)
NonWhitespace(t) == SelectSeq(t, LAMBDA c : c \notin Whitespace)

RECURSIVE IsSubsequence(_, _)
\* s is t with zero or more elements deleted
IsSubsequence(s, t) ==
    IF s = <<>> THEN TRUE
    ELSE IF t = <<>> THEN FALSE
    ELSE IF Head(s) = Head(t) THEN IsSubsequence(Tail(s), Tail(t))
    ELSE IsSubsequence(s, Tail(t))

\* C6 (as stated): the chunks, concatenated in order, are the input text exactly.
C6_RoundTripExact ==
    sp_pc = "returned" => Flatten(sp_parts) = sp_input

\* C6 (amended): the chunks, concatenated in order, are the input text with only
\* whitespace deleted: every non-whitespace character is kept once and in order,
\* and a text no longer than max_length is returned whole.
C6_RoundTripUpToWhitespace ==
    sp_pc = "returned" =>
        /\ NonWhitespace(Flatten(sp_parts)) = NonWhitespace(sp_input)
        /\ IsSubsequence(Flatten(sp_parts), sp_input)
        /\ (Len(sp_input) <= sp_max => sp_parts = <<sp_input>>)

\* a split into two or more chunks that lost whitespace at a cut
C6_Witness ==
    /\ sp_pc = "returned"
    /\ Len(sp_parts) >= 2
    /\ Flatten(sp_parts) # sp_input
    /\ NonWhitespace(sp_input) # <<>>

\* C7: every chunk is at most max_length long, and a hard-cut chunk is exactly
\* max_length long.
C7_ChunkLength ==
    sp_pc = "returned" =>
        \A i \in 1..Len(sp_parts) :
            /\ Len(sp_parts[i]) <= sp_max
            /\ (sp_kinds[i] = "hard" => Len(sp_parts[i]) = sp_max)

\* the zero-based positions the scan visits: max_length down to max_length // 2 + 1
ScanWindow(max_length) == ((max_length \div 2) + 1)..max_length

\* the terminators of the text inside the window
TerminatorsInWindow(text, max_length) ==
    {p \in ScanWindow(max_length) : text[p + 1] \in Terminators}

\* the largest element of a non-empty set of numbers
Largest(S) == CHOOSE p \in S : \A q \in S : q <= p

\* where a round cuts: one past the terminator nearest to max_length, else max_length
ExpectedCut(text, max_length) ==
    IF TerminatorsInWindow(text, max_length) = {}
    THEN max_length
    ELSE Largest(TerminatorsInWindow(text, max_length)) + 1

\* a step of the loop on a text longer than max_length
CuttingRound == sp_pc = "loop" /\ Len(sp_text) > sp_max /\ sp_parts' # sp_parts

\* C21 (as stated): a round on a text longer than max_length cuts one past the
\* terminator of the window nearest to max_length, or at max_length if the window
\* has none, and the next round starts on the text right after the cut.
C21_NextChunkExact ==
    [][CuttingRound =>
        /\ sp_parts' = Append(sp_parts, Take(sp_text, ExpectedCut(sp_text, sp_max)))
        /\ sp_text' = Drop(sp_text, ExpectedCut(sp_text, sp_max))]_vars

\* C21 (amended): the same cut, the next round starting on the text after the cut
\* with the whitespace at its two ends removed.
C21_NextChunkThenStrip ==
    [][CuttingRound =>
        /\ sp_parts' = Append(sp_parts, Take(sp_text, ExpectedCut(sp_text, sp_max)))
        /\ sp_text' = Strip(Drop(sp_text, ExpectedCut(sp_text, sp_max)))]_vars

\* a call that made a sentence cut and a hard cut, and lost whitespace at a cut
C21_Witness ==
    /\ sp_pc = "returned"
    /\ \E i, j \in 1..Len(sp_kinds) : sp_kinds[i] = "sentence" /\ sp_kinds[j] = "hard"
    /\ Len(Flatten(sp_parts)) < Len(sp_input)

\* create_pdf_from_images raised: the audio's record was written before it ran
PdfFailed ==
    /\ Failed
    /\ exc.detail \in {"Failed to create PDF: convert", "Failed to create PDF: upload",
                       "Failed to create PDF: insert_one"}

\* C22: when the PDF step fails after the audio's record was written, the counter
\* is back at its value before the call, an error is raised, and the audio's
\* record, the primary one, is still stored.
C22_PrimaryRemains ==
    PdfFailed =>
        /\ storages = InitStorages
        /\ raised.type = "HTTPException"
        /\ NewFiles = {mp3_file_id}
        /\ files[mp3_file_id] =
               PrimaryDoc(storage_id, user, s3_key, final_text, total_size)
        /\ files[mp3_file_id].is_primary

\* the PDF was uploaded, its record's insert failed, the audio's record remains
C22_Witness ==
    /\ PdfFailed
    /\ NewPdfs # {}
    /\ Cardinality(NewFiles) = 1

\* the speech request of process_images failed
SpeechFailed == exc.detail = "TTS failed: request"

\* a speech request of convert_text_to_speech failed
ChunkFailed == pc = "tts_raised" /\ Len(audio_binaries) < Len(text_parts)

\* C23: a failed speech request ends the call with an error; no audio is stored,
\* whole or partial, no record is written, and the counter is back at its value
\* before the call.
C23_SpeechFailureLeavesNothing ==
    /\ SpeechFailed =>
          /\ pc \in {"except", "raised"}
          /\ objects = InitObjects
          /\ files = InitFiles
    /\ (SpeechFailed /\ Failed) =>
          /\ storages = InitStorages
          /\ raised.type = "HTTPException"
    /\ ChunkFailed =>
          /\ raised = TtsError
          /\ final_audio = <<>>
          /\ objects = InitObjects
          /\ files = InitFiles
          /\ storages = InitStorages

\* the call was rolled back after its speech request failed
C23_Witness == SpeechFailed /\ Failed /\ Reserved /\ ledger_writes # <<>>

\* the positions of the requests made to one service
CallsTo(svc) == {i \in 1..Len(ext_calls) : ext_calls[i].svc = svc}

\* a state after a step failed
AfterFailure == pc \in {"except", "raised", "tts_raised"}

\* C24 (calls): no page is sent to the OCR service twice and the pages are sent
\* in order; process_images sends one speech request, convert_text_to_speech one
\* per chunk, in chunk order.
C24_AtMostOnce ==
    /\ \A i, j \in CallsTo("ocr") : i < j => ext_calls[i].page < ext_calls[j].page
    /\ \A i \in CallsTo("ocr") : ext_calls[i].page < Len(req.files)
    /\ pc \in {"pages", "save", "pdf", "done", "except", "raised"} =>
          Cardinality(CallsTo("tts")) <= 1
    /\ pc \in {"tts_loop", "tts_upload", "tts_done", "tts_raised"} =>
          /\ Len(ext_calls) <= Len(text_parts)
          /\ \A i \in 1..Len(ext_calls) : ext_calls[i] = TtsCall(text_parts[i])

\* C24: each page is sent to the OCR service at most once and each chunk to the
\* speech service at most once, and once a step has failed the call makes no
\* further request, stores no object and writes no record.
C24_NoRetryNoFurtherWrites ==
    /\ []C24_AtMostOnce
    /\ [][AfterFailure =>
            /\ ext_calls' = ext_calls
            /\ objects' = objects
            /\ files' = files]_vars

\* the OCR request of the second page failed and the call was rolled back
C24_Witness ==
    /\ Failed
    /\ Cardinality(CallsTo("ocr")) = 2
    /\ exc.detail \in {"HTTP error", "request error"}

\* C25: the PDF of a successful call has one page per submitted page, the i-th
\* being the image written for the i-th page, whatever the filenames.
C25_PdfPagesInInputOrder ==
    Succeeded =>
        \A o \in NewPdfs :
            /\ Len(o.Body.pages) = Len(req.files)
            /\ \A i \in 1..Len(req.files) : o.Body.pages[i] = rectified[i]

\* page i (one-based) carries four vertices whose output width or height is 0
DegeneratePage(i) ==
    /\ HasVertices(vertices_data, i - 1)
    /\ Len(vertices_data.items[i].points) = 4
    /\ \/ OutWidth(vertices_data.items[i].points) <= 0
       \/ OutHeight(vertices_data.items[i].points) <= 0

\* C26: a page with a degenerate quad is never rectified: the call fails on it
\* with an error of the rectifier's own (not a library error), stores no PDF and
\* leaves the counter at its value before the call.
C26_DegenerateQuadRejected ==
    \A i \in 1..Len(req.files) :
        DegeneratePage(i) =>
            /\ Len(rectified) < i
            /\ ~Succeeded
            /\ NewPdfs = {}
            /\ exc.type # "Exception"
            /\ (Failed => storages = InitStorages)

\* C27: the image sent to the OCR service for a page that carries a quad is the
\* image the rectifier produced for that page, the one written for the PDF.
C27_OcrSeesRectified ==
    \A k \in CallsTo("ocr") :
        HasVertices(vertices_data, ext_calls[k].page) =>
            /\ Len(rectified) > ext_calls[k].page
            /\ ext_calls[k].image = rectified[ext_calls[k].page + 1]

\* no call is in flight
Quiescent == pc \in {"idle", "done", "raised"}

\* the primary records of a collection, the ones get_storage_detail lists
PrimaryRecords(sid) ==
    {i \in 1..Len(files) : files[i].storage_id = sid /\ files[i].is_primary}

\* the primary records left behind by a call that failed after writing one
OrphanedPrimaries(sid) ==
    IF Failed THEN PrimaryRecords(sid) \cap NewFiles ELSE {}

C29_ScratchDirAsFound ==
    pc \in {"tts_upload", "tts_done", "tts_raised"} => combine_dir = {}

\* every round so far left a shorter text than it found
RoundsShrink ==
    \A i \in 1..Len(sp_rounds) : sp_rounds[i][2] < sp_rounds[i][1]

\* the chunks returned for a non-empty text are non-empty
ChunksNonEmpty ==
    (sp_pc = "returned" /\ sp_input # <<>>) =>
        /\ sp_parts # <<>>
        /\ \A i \in 1..Len(sp_parts) : sp_parts[i] # <<>>

\* C30: for every text and every max_length of at least 1 the splitter returns;
\* each round removes at least one character from the remaining text, and the
\* chunks returned for a non-empty text are all non-empty.
C30_SplitterTerminates ==
    /\ <>(sp_pc = "returned")
    /\ []RoundsShrink
    /\ []ChunksNonEmpty

\* a call that returned after two or more cutting rounds
C30_Witness ==
    /\ sp_pc = "returned"
    /\ sp_max >= 1
    /\ Len(sp_rounds) >= 2

=============================================================================
